---- MODULE Spec2Model ----
(***************************************************************************)
(* Model of the audio-visualizer demos.                                    *)
(*                                                                         *)
(*   src/src/App.jsx      microphone 2D visualizer (start / stop, the      *)
(*                        requestAnimationFrame loop, the hue sweep)       *)
(*   src/unnamed/part_000 file-upload 3D visualizer (simple variant)       *)
(*   src/unnamed/part_001 file-upload 3D visualizer with a Z formula       *)
(*                                                                         *)
(* Each React handler is one action.  An async handler is two actions:     *)
(* the part before its await and the continuation after the promise has    *)
(* settled.  The browser (getUserMedia, the audio element, the frame       *)
(* scheduler, AudioContext) is the environment; its state is kept in       *)
(* variables of its own so that leaks and double releases are visible.     *)
(***************************************************************************)
EXTENDS Integers, Sequences, FiniteSets

\* ------------------------------------------------------------------ bounds
\* Start clicks over one lifetime of the microphone component.
MaxStarts == 3
\* Frame callbacks that run over one lifetime of the microphone component.
MaxFrames == 3
\* Valid uploads over one lifetime of a file-upload component.
MaxUploads == 2
\* togglePlayback calls that may be waiting on play() at the same time.
MaxPending == 2

\* ------------------------------------------------------- program constants
fftSize == 256
barCount == 64
BassBars == 16

VARIABLES
    \* --- microphone demo: React state and refs (App.jsx 5-9)
    isVisualizing,        \* useState(false)
    micError,             \* useState(null): "null" or the message
    micAudioContextRef,   \* audioContextRef.current: 0 (null) or a context id
    micAnalyserRef,       \* analyserRef.current: 0 (null) or the id of its context
    animationFrameRef,    \* animationFrameRef.current: 0 (null) or a frame handle
    \* --- microphone demo: the browser
    mounted,              \* the component is mounted
    pendingGetUserMedia,  \* startVisualizer calls waiting at the await
    contextState,         \* per AudioContext id: "none", "running" or "closed"
    closeCalls,           \* per AudioContext id: how often close() was called on it
    openStreams,          \* MediaStreams handed out whose tracks were never stopped
    scheduledFrames,      \* handles of the frame callbacks that are scheduled
    nextHandle,           \* the last handle requestAnimationFrame returned
    framesRun,            \* frame callbacks that have run
    stopRan,              \* stopVisualizer has run and Start was not clicked since
    \* --- the draw loop of one frame (App.jsx 56-64)
    drawI,                \* the loop counter i
    drawHue,              \* the hue of the bar drawn last, times bufferLength
    drawPrevHue,          \* the hue of the bar drawn before it, times bufferLength
    \* --- file-upload demos: React state and refs
    variant,              \* "simple" (part_000) or "formula" (part_001)
    audioFile,            \* useState(null): 0 (null) or the n-th object URL
    isPlaying,            \* useState(false)
    error,                \* useState(null): "null" or the message
    zFormula,             \* useState('sine'); "absent" in the simple variant
    audioContextRef,      \* 0 (null) or a context id
    analyserRef,          \* 0 (null) or an analyser id
    sourceRef,            \* 0 (null) or a media-element source id
    \* --- file-upload demos: the browser
    contextsCreated,      \* AudioContexts constructed
    sourcesCreated,       \* createMediaElementSource calls
    connectCalls,         \* connect() calls
    element,              \* the audio element: "paused", "starting", "playing", "ended"
    pendingPlays,         \* togglePlayback calls waiting at await play(): their isPlaying
    playSettled,          \* how the pending play promises settled: "pending", "resolved", "rejected"
    \* --- the bar loop of one useFrame callback
    barI,                 \* the loop counter i
    barFreqIndex,         \* the index read for the bar computed last
    barSample,            \* the byte read there
    barHeight,            \* its height, times HeightScale
    \* --- the handler that ran last, and the file the last upload was given
    lastOp,
    lastFile

micVars == <<isVisualizing, micError, micAudioContextRef, micAnalyserRef,
             animationFrameRef, mounted, pendingGetUserMedia, contextState,
             closeCalls, openStreams, scheduledFrames, nextHandle, framesRun,
             stopRan>>
drawVars == <<drawI, drawHue, drawPrevHue>>
fileVars == <<variant, audioFile, isPlaying, error, zFormula, audioContextRef,
              analyserRef, sourceRef, contextsCreated, sourcesCreated,
              connectCalls, element, pendingPlays, playSettled>>
barVars == <<barI, barFreqIndex, barSample, barHeight>>
vars == <<micVars, drawVars, fileVars, barVars, lastOp, lastFile>>

\* ========================================================================
\* Microphone demo (src/src/App.jsx)
\* ========================================================================
MicDeniedMessage == "Microphone access denied or unavailable. Please allow microphone permission."

ContextIds == 1..MaxStarts

\* The id the next `new AudioContext()` gets.
NewContextId == Cardinality({c \in ContextIds : contextState[c] # "none"}) + 1

RunningContexts == {c \in ContextIds : contextState[c] = "running"}

MicIdle ==
    /\ isVisualizing = FALSE
    /\ micError = "null"
    /\ micAudioContextRef = 0
    /\ micAnalyserRef = 0
    /\ animationFrameRef = 0
    /\ mounted = TRUE
    /\ pendingGetUserMedia = 0
    /\ contextState = [c \in ContextIds |-> "none"]
    /\ closeCalls = [c \in ContextIds |-> 0]
    /\ openStreams = 0
    /\ scheduledFrames = {}
    /\ nextHandle = 0
    /\ framesRun = 0
    /\ stopRan = FALSE

DrawIdle ==
    /\ drawI = 0
    /\ drawHue = 0
    /\ drawPrevHue = 0

\* setState of an unmounted component is dropped by React.
SetState(current, value) == IF mounted THEN value ELSE current

\* Click on "Start Visualizer": startVisualizer up to its await (App.jsx
\* 11-13).  The button is rendered while isVisualizing is false (99-105).
\* Every call that is waiting will need a context id when it resolves.
ClickStart ==
    /\ mounted
    /\ ~isVisualizing
    /\ pendingGetUserMedia + (NewContextId - 1) < MaxStarts
    /\ pendingGetUserMedia' = pendingGetUserMedia + 1
    /\ stopRan' = FALSE
    /\ lastOp' = "startVisualizer"
    /\ UNCHANGED <<isVisualizing, micError, micAudioContextRef, micAnalyserRef,
                   animationFrameRef, mounted, contextState, closeCalls,
                   openStreams, scheduledFrames, nextHandle, framesRun>>
    /\ UNCHANGED <<drawVars, fileVars, barVars, lastFile>>

\* getUserMedia resolves: the rest of the try block (App.jsx 14-22).  With
\* the component mounted drawVisualizer runs draw() once, which schedules the
\* first frame callback (46-47, 67).  After unmount canvasRef.current is
\* null, canvas.getContext throws in drawVisualizer (40-41) and the catch
\* block runs (23-25); its setError is dropped.
GetUserMediaResolves ==
    /\ pendingGetUserMedia > 0
    /\ pendingGetUserMedia' = pendingGetUserMedia - 1
    /\ openStreams' = openStreams + 1
    /\ contextState' = [contextState EXCEPT ![NewContextId] = "running"]
    /\ micAudioContextRef' = NewContextId
    /\ micAnalyserRef' = NewContextId
    /\ isVisualizing' = SetState(isVisualizing, TRUE)
    /\ micError' = SetState(micError, "null")
    /\ IF mounted
       THEN /\ nextHandle' = nextHandle + 1
            /\ scheduledFrames' = scheduledFrames \cup {nextHandle + 1}
            /\ animationFrameRef' = nextHandle + 1
       ELSE UNCHANGED <<nextHandle, scheduledFrames, animationFrameRef>>
    /\ lastOp' = "getUserMediaResolved"
    /\ UNCHANGED <<mounted, closeCalls, framesRun, stopRan>>
    /\ UNCHANGED <<drawVars, fileVars, barVars, lastFile>>

\* A catch block that, wrongly, also marks the session as visualizing.
BuggyGetUserMediaRejects ==
    /\ pendingGetUserMedia > 0
    /\ pendingGetUserMedia' = pendingGetUserMedia - 1
    /\ micError' = SetState(micError, MicDeniedMessage)
    /\ isVisualizing' = SetState(isVisualizing, TRUE)
    /\ lastOp' = "getUserMediaRejected"
    /\ UNCHANGED <<micAudioContextRef, micAnalyserRef, animationFrameRef,
                   mounted, contextState, closeCalls, openStreams,
                   scheduledFrames, nextHandle, framesRun, stopRan>>
    /\ UNCHANGED <<drawVars, fileVars, barVars, lastFile>>

\* getUserMedia rejects (permission denied, no device): the catch block
\* (App.jsx 23-26).
GetUserMediaRejects ==
    /\ pendingGetUserMedia > 0
    /\ pendingGetUserMedia' = pendingGetUserMedia - 1
    /\ micError' = SetState(micError, MicDeniedMessage)
    /\ lastOp' = "getUserMediaRejected"
    /\ UNCHANGED <<isVisualizing, micAudioContextRef, micAnalyserRef,
                   animationFrameRef, mounted, contextState, closeCalls,
                   openStreams, scheduledFrames, nextHandle, framesRun, stopRan>>
    /\ UNCHANGED <<drawVars, fileVars, barVars, lastFile>>

\* A scheduled frame callback runs draw (App.jsx 46-65): it schedules the
\* next callback and stores its handle.
AnimationFrame(h) ==
    /\ h \in scheduledFrames
    /\ framesRun < MaxFrames
    /\ framesRun' = framesRun + 1
    /\ nextHandle' = nextHandle + 1
    /\ scheduledFrames' = (scheduledFrames \ {h}) \cup {nextHandle + 1}
    /\ animationFrameRef' = nextHandle + 1
    /\ lastOp' = "draw"
    /\ UNCHANGED <<isVisualizing, micError, micAudioContextRef, micAnalyserRef,
                   mounted, pendingGetUserMedia, contextState, closeCalls,
                   openStreams, stopRan>>
    /\ UNCHANGED <<drawVars, fileVars, barVars, lastFile>>

\* stopVisualizer (App.jsx 29-37).  cancelAnimationFrame of a handle that is
\* not scheduled does nothing.  close() is called on whatever context the ref
\* holds, closed or not: the ref is never reset to null.
StopVisualizer ==
    /\ scheduledFrames' = IF animationFrameRef # 0
                          THEN scheduledFrames \ {animationFrameRef}
                          ELSE scheduledFrames
    /\ IF micAudioContextRef # 0
       THEN /\ closeCalls' = [closeCalls EXCEPT ![micAudioContextRef] = @ + 1]
            /\ contextState' = [contextState EXCEPT ![micAudioContextRef] = "closed"]
       ELSE UNCHANGED <<closeCalls, contextState>>
    /\ isVisualizing' = SetState(isVisualizing, FALSE)
    /\ stopRan' = TRUE
    /\ UNCHANGED <<micError, micAudioContextRef, micAnalyserRef,
                   animationFrameRef, pendingGetUserMedia, openStreams,
                   nextHandle, framesRun>>

\* Click on "Stop Visualizer", rendered while isVisualizing (App.jsx 106-112).
ClickStop ==
    /\ mounted
    /\ isVisualizing
    /\ StopVisualizer
    /\ lastOp' = "stopVisualizer"
    /\ UNCHANGED mounted
    /\ UNCHANGED <<drawVars, fileVars, barVars, lastFile>>

\* The component unmounts: the effect cleanup calls stopVisualizer
\* (App.jsx 81-83).
Unmount ==
    /\ mounted
    /\ StopVisualizer
    /\ mounted' = FALSE
    /\ lastOp' = "unmount"
    /\ UNCHANGED <<drawVars, fileVars, barVars, lastFile>>

NextMic ==
    \/ ClickStart
    \/ GetUserMediaResolves
    \/ GetUserMediaRejects
    \/ \E h \in scheduledFrames : AnimationFrame(h)
    \/ ClickStop
    \/ Unmount

\* ------------------------------------------------------------------------
\* The bar loop of one draw call (App.jsx 43, 56-64)
\* ------------------------------------------------------------------------
\* analyser.frequencyBinCount is half the fftSize set at App.jsx 17.
bufferLength == fftSize \div 2

\* A sweep of 120 degrees instead of 60.
BuggyHue(i) == i * 120 + 180 * bufferLength

\* hue = i / bufferLength * 60 + 180 (App.jsx 59), times bufferLength so that
\* it stays an integer.  With bufferLength a power of two the division, the
\* product and the sum are exact in double arithmetic.
Hue(i) == i * 60 + 180 * bufferLength

\* draw enters its for loop (App.jsx 56: i = 0).
DrawLoopBegin ==
    /\ micAnalyserRef # 0
    /\ drawI = bufferLength
    /\ drawI' = 0
    /\ lastOp' = "drawLoopBegin"
    /\ UNCHANGED <<drawHue, drawPrevHue>>
    /\ UNCHANGED <<micVars, fileVars, barVars, lastFile>>

\* One iteration of the for loop (App.jsx 56-64).
DrawBar ==
    /\ micAnalyserRef # 0
    /\ drawI < bufferLength
    /\ drawHue' = Hue(drawI)
    /\ drawPrevHue' = drawHue
    /\ drawI' = drawI + 1
    /\ lastOp' = "drawBar"
    /\ UNCHANGED <<micVars, fileVars, barVars, lastFile>>

NextDraw ==
    \/ DrawLoopBegin
    \/ DrawBar

\* ========================================================================
\* File-upload demos (src/unnamed/part_000, src/unnamed/part_001)
\* ========================================================================
UploadMessage == "Please upload a valid audio file (mp3, wav, etc.)"
PlaybackMessage == "Playback failed. Try clicking Play again."

\* The options of the formula selector (part_001 150-154).
ZFormulas == {"none", "sine", "wave", "pulse", "spiral"}

\* What the file picker can hand to handleFileUpload: no file at all, or a
\* file with a MIME type, spelled as a sequence of characters.
NoFile == [present |-> FALSE, type |-> <<>>]
FileChoices ==
    { NoFile,
      [present |-> TRUE, type |-> <<>>],
      [present |-> TRUE, type |-> <<"a", "u", "d", "i", "o">>],
      [present |-> TRUE, type |-> <<"v", "i", "d", "e", "o", "/", "m", "p", "4">>],
      [present |-> TRUE, type |-> <<"a", "u", "d", "i", "o", "/", "w", "a", "v">>],
      [present |-> TRUE, type |-> <<"a", "u", "d", "i", "o", "/", "m", "p", "e", "g">>] }

\* String.prototype.startsWith.
StartsWith(str, prefix) ==
    /\ Len(str) >= Len(prefix)
    /\ SubSeq(str, 1, Len(prefix)) = prefix

AudioPrefix == <<"a", "u", "d", "i", "o", "/">>

\* A validation that accepts whatever file is present.
BuggyIsValidFile(file) == file.present

\* !(!file || !file.type.startsWith('audio/'))  (part_000 68, part_001 88)
IsValidFile(file) == file.present /\ StartsWith(file.type, AudioPrefix)

FileIdle ==
    /\ audioFile = 0
    /\ isPlaying = FALSE
    /\ error = "null"
    /\ zFormula = IF variant = "formula" THEN "sine" ELSE "absent"
    /\ audioContextRef = 0
    /\ analyserRef = 0
    /\ sourceRef = 0
    /\ contextsCreated = 0
    /\ sourcesCreated = 0
    /\ connectCalls = 0
    /\ element = "paused"
    /\ pendingPlays = <<>>
    /\ playSettled = "pending"

BarsIdle ==
    /\ barI = 0
    /\ barFreqIndex = 0
    /\ barSample = 0
    /\ barHeight = 0

\* audioRef.current: the audio element is rendered with the file
\* (part_000 124, 152; part_001 140, 183).
audioRef == IF audioFile # 0 THEN 1 ELSE 0

\* The continuations of settled play promises are microtasks: they run
\* before the browser dispatches the next event.
NoMicrotask == pendingPlays = <<>> \/ playSettled = "pending"

\* The pending play promises are rejected together when the element is
\* paused or loads a new source.
RejectPendingPlays == IF pendingPlays # <<>> THEN "rejected" ELSE playSettled

\* handleFileUpload (part_000 66-76, part_001 86-95).  A valid file gets a
\* fresh object URL; the new src makes the element load it, which stops the
\* playback and rejects the pending play promises.
HandleFileUpload(file) ==
    /\ NoMicrotask
    /\ IF ~IsValidFile(file)
       THEN /\ error' = UploadMessage
            /\ UNCHANGED <<audioFile, isPlaying, element, playSettled>>
       ELSE /\ audioFile < MaxUploads
            /\ audioFile' = audioFile + 1
            /\ error' = "null"
            /\ isPlaying' = FALSE
            /\ element' = "paused"
            /\ playSettled' = RejectPendingPlays
    /\ lastOp' = "handleFileUpload"
    /\ lastFile' = file
    /\ UNCHANGED <<variant, zFormula, audioContextRef, analyserRef, sourceRef,
                   contextsCreated, sourcesCreated, connectCalls, pendingPlays>>
    /\ UNCHANGED <<micVars, drawVars, barVars>>

\* A toggle that builds the pipeline on every call.
BuggyNeedsPipeline == TRUE

\* !audioContextRef.current (part_000 82, part_001 100)
NeedsPipeline == audioContextRef = 0

\* The first-play initialisation (part_000 82-92, part_001 100-109).
InitPipeline ==
    IF NeedsPipeline
    THEN /\ contextsCreated' = contextsCreated + 1
         /\ audioContextRef' = contextsCreated + 1
         /\ analyserRef' = contextsCreated + 1
         /\ sourcesCreated' = sourcesCreated + 1
         /\ sourceRef' = sourcesCreated + 1
         /\ connectCalls' = connectCalls + 2
    ELSE UNCHANGED <<contextsCreated, audioContextRef, analyserRef,
                     sourcesCreated, sourceRef, connectCalls>>

\* Click on the play/pause button, rendered with the file: togglePlayback
\* up to its await, or to its end on the pause branch
\* (part_000 78-107, part_001 97-123).
TogglePlayback ==
    /\ NoMicrotask
    /\ audioRef # 0
    /\ InitPipeline
    /\ IF isPlaying
       THEN /\ element' = "paused"
            /\ playSettled' = RejectPendingPlays
            /\ isPlaying' = ~isPlaying
            /\ lastOp' = "togglePlaybackPause"
            /\ UNCHANGED pendingPlays
       ELSE /\ Len(pendingPlays) < MaxPending
            /\ pendingPlays' = Append(pendingPlays, isPlaying)
            /\ element' = IF element = "playing" THEN "playing" ELSE "starting"
            /\ lastOp' = "togglePlaybackPlay"
            /\ UNCHANGED <<isPlaying, playSettled>>
    /\ UNCHANGED <<variant, audioFile, error, zFormula>>
    /\ UNCHANGED <<micVars, drawVars, barVars, lastFile>>

\* The element starts to play: the pending play promises resolve together.
PlaySucceeds ==
    /\ pendingPlays # <<>>
    /\ playSettled = "pending"
    /\ playSettled' = "resolved"
    /\ element' = "playing"
    /\ lastOp' = "playResolved"
    /\ UNCHANGED <<variant, audioFile, isPlaying, error, zFormula,
                   audioContextRef, analyserRef, sourceRef, contextsCreated,
                   sourcesCreated, connectCalls, pendingPlays>>
    /\ UNCHANGED <<micVars, drawVars, barVars, lastFile>>

\* The element cannot play (undecodable source, playback not allowed): the
\* pending play promises reject together.
PlayFails ==
    /\ pendingPlays # <<>>
    /\ playSettled = "pending"
    /\ element = "starting"
    /\ playSettled' = "rejected"
    /\ element' = "paused"
    /\ lastOp' = "playRejected"
    /\ UNCHANGED <<variant, audioFile, isPlaying, error, zFormula,
                   audioContextRef, analyserRef, sourceRef, contextsCreated,
                   sourcesCreated, connectCalls, pendingPlays>>
    /\ UNCHANGED <<micVars, drawVars, barVars, lastFile>>

PopPendingPlay ==
    /\ pendingPlays' = Tail(pendingPlays)
    /\ playSettled' = IF Tail(pendingPlays) = <<>> THEN "pending" ELSE playSettled

\* togglePlayback after await play() resolved: setIsPlaying(!isPlaying) with
\* the isPlaying of the render that made the call (part_000 106, part_001 122).
TogglePlaybackResolved ==
    /\ pendingPlays # <<>>
    /\ playSettled = "resolved"
    /\ isPlaying' = ~Head(pendingPlays)
    /\ PopPendingPlay
    /\ lastOp' = "togglePlaybackResolved"
    /\ UNCHANGED <<variant, audioFile, error, zFormula, audioContextRef,
                   analyserRef, sourceRef, contextsCreated, sourcesCreated,
                   connectCalls, element>>
    /\ UNCHANGED <<micVars, drawVars, barVars, lastFile>>

\* A catch block without its return: the call goes on to setIsPlaying.
BuggyTogglePlaybackRejected ==
    /\ pendingPlays # <<>>
    /\ playSettled = "rejected"
    /\ error' = PlaybackMessage
    /\ isPlaying' = ~Head(pendingPlays)
    /\ PopPendingPlay
    /\ lastOp' = "togglePlaybackRejected"
    /\ UNCHANGED <<variant, audioFile, zFormula, audioContextRef,
                   analyserRef, sourceRef, contextsCreated, sourcesCreated,
                   connectCalls, element>>
    /\ UNCHANGED <<micVars, drawVars, barVars, lastFile>>

\* togglePlayback after await play() rejected: the catch block
\* (part_000 99-103, part_001 116-120).
TogglePlaybackRejected ==
    /\ pendingPlays # <<>>
    /\ playSettled = "rejected"
    /\ error' = PlaybackMessage
    /\ PopPendingPlay
    /\ lastOp' = "togglePlaybackRejected"
    /\ UNCHANGED <<variant, audioFile, isPlaying, zFormula, audioContextRef,
                   analyserRef, sourceRef, contextsCreated, sourcesCreated,
                   connectCalls, element>>
    /\ UNCHANGED <<micVars, drawVars, barVars, lastFile>>

\* The audio plays to its end.  Neither variant listens for it.
AudioEnds ==
    /\ NoMicrotask
    /\ element = "playing"
    /\ element' = "ended"
    /\ lastOp' = "ended"
    /\ UNCHANGED <<variant, audioFile, isPlaying, error, zFormula,
                   audioContextRef, analyserRef, sourceRef, contextsCreated,
                   sourcesCreated, connectCalls, pendingPlays, playSettled>>
    /\ UNCHANGED <<micVars, drawVars, barVars, lastFile>>

\* The formula selector, rendered with the file (part_001 140-155).
SetZFormula(f) ==
    /\ NoMicrotask
    /\ variant = "formula"
    /\ audioFile # 0
    /\ zFormula' = f
    /\ lastOp' = "setZFormula"
    /\ UNCHANGED <<variant, audioFile, isPlaying, error, audioContextRef,
                   analyserRef, sourceRef, contextsCreated, sourcesCreated,
                   connectCalls, element, pendingPlays, playSettled>>
    /\ UNCHANGED <<micVars, drawVars, barVars, lastFile>>

NextFile ==
    \/ \E file \in FileChoices : HandleFileUpload(file)
    \/ TogglePlayback
    \/ PlaySucceeds
    \/ PlayFails
    \/ TogglePlaybackResolved
    \/ TogglePlaybackRejected
    \/ AudioEnds
    \/ \E f \in ZFormulas : SetZFormula(f)

\* ------------------------------------------------------------------------
\* The bar loop of one useFrame callback (part_000 10-40, part_001 10-59)
\* ------------------------------------------------------------------------
\* dataArray.length: analyser.frequencyBinCount, half the fftSize set at
\* part_000 86 and part_001 103.
FrequencyBinCount == fftSize \div 2

\* The bytes getByteFrequencyData can write.
Samples == 0..255

\* Heights are kept times HeightScale: value = sample / 255 and the boosts
\* 4 and 1.5 have one decimal.
HeightScale == 255 * 10

\* The floor 0.3 of Math.max (part_000 25, part_001 24), times HeightScale.
MinHeight == 3 * 255

Max(a, b) == IF a >= b THEN a ELSE b

\* Math.floor(i * 2) (part_000 21);
\* Math.floor(i * (dataArray.length / barCount)) (part_001 19).
FreqIndex(i) ==
    IF variant = "simple"
    THEN i * 2
    ELSE (i * FrequencyBinCount) \div barCount

\* i < 16 ? value * 4 : value * 1.5, with value = sample / 255
\* (part_000 21-24, part_001 20-23), times HeightScale.
BassBoost(i, sample) == IF i < BassBars THEN sample * 40 ELSE sample * 15

\* A height without its floor.
BuggyHeight(i, sample) == BassBoost(i, sample) * 12

\* Math.max(0.3, bassBoost * 12) (part_000 25, part_001 24), times HeightScale.
Height(i, sample) == Max(MinHeight, BassBoost(i, sample) * 12)

\* useFrame runs again: a new snapshot, the loop starts over at i = 0.
UseFrame ==
    /\ analyserRef # 0
    /\ barI = barCount
    /\ barI' = 0
    /\ lastOp' = "useFrame"
    /\ UNCHANGED <<barFreqIndex, barSample, barHeight>>
    /\ UNCHANGED <<micVars, drawVars, fileVars, lastFile>>

\* One iteration of the loop: bar barI reads the byte the snapshot holds at
\* its index; any byte can be there.
ComputeBar(sample) ==
    /\ analyserRef # 0
    /\ barI < barCount
    /\ barFreqIndex' = FreqIndex(barI)
    /\ barSample' = sample
    /\ barHeight' = Height(barI, sample)
    /\ barI' = barI + 1
    /\ lastOp' = "computeBar"
    /\ UNCHANGED <<micVars, drawVars, fileVars, lastFile>>

NextBars ==
    \/ UseFrame
    \/ \E sample \in Samples : ComputeBar(sample)

\* ========================================================================
\* Specifications
\* ========================================================================
\* The microphone demo, from the mounted, idle component.
InitMic ==
    /\ MicIdle
    /\ DrawIdle
    /\ variant = "simple"
    /\ FileIdle
    /\ BarsIdle
    /\ lastOp = "mount"
    /\ lastFile = NoFile

SpecMic == InitMic /\ [][NextMic]_vars

\* The draw loop of the microphone demo, in a session that was started.
InitDraw ==
    /\ isVisualizing = TRUE
    /\ micError = "null"
    /\ micAudioContextRef = 1
    /\ micAnalyserRef = 1
    /\ animationFrameRef = 1
    /\ mounted = TRUE
    /\ pendingGetUserMedia = 0
    /\ contextState = [c \in ContextIds |-> IF c = 1 THEN "running" ELSE "none"]
    /\ closeCalls = [c \in ContextIds |-> 0]
    /\ openStreams = 1
    /\ scheduledFrames = {1}
    /\ nextHandle = 1
    /\ framesRun = 0
    /\ stopRan = FALSE
    /\ DrawIdle
    /\ variant = "simple"
    /\ FileIdle
    /\ BarsIdle
    /\ lastOp = "getUserMediaResolved"
    /\ lastFile = NoFile

SpecDraw == InitDraw /\ [][NextDraw]_vars

\* Either file-upload demo, from the freshly rendered component.
InitFile ==
    /\ MicIdle
    /\ DrawIdle
    /\ variant \in {"simple", "formula"}
    /\ FileIdle
    /\ BarsIdle
    /\ lastOp = "mount"
    /\ lastFile = NoFile

SpecFile == InitFile /\ [][NextFile]_vars

\* The bar loop of either file-upload demo, with a file playing.
InitBars ==
    /\ MicIdle
    /\ DrawIdle
    /\ variant \in {"simple", "formula"}
    /\ audioFile = 1
    /\ isPlaying = TRUE
    /\ error = "null"
    /\ zFormula = IF variant = "formula" THEN "sine" ELSE "absent"
    /\ audioContextRef = 1
    /\ analyserRef = 1
    /\ sourceRef = 1
    /\ contextsCreated = 1
    /\ sourcesCreated = 1
    /\ connectCalls = 2
    /\ element = "playing"
    /\ pendingPlays = <<>>
    /\ playSettled = "pending"
    /\ BarsIdle
    /\ lastOp = "togglePlaybackResolved"
    /\ lastFile = [present |-> TRUE, type |-> <<"a", "u", "d", "i", "o", "/", "w", "a", "v">>]

SpecBars == InitBars /\ [][NextBars]_vars

\* ========================================================================
\* Claims
\* ========================================================================
StopOps == {"stopVisualizer", "unmount"}

\* C1: when stopVisualizer runs twice in succession, the second call leaves
\* the session idle as the first did and calls close() on no context again:
\* the AudioContext is released exactly once.
C1_SecondStopReleasesNothing ==
    [][(lastOp \in StopOps /\ lastOp' \in StopOps)
         => /\ isVisualizing = FALSE
            /\ isVisualizing' = FALSE
            /\ closeCalls' = closeCalls]_vars

\* C2: once stopVisualizer has run (Stop or unmount) and until Start is
\* clicked again, no frame callback is scheduled, no captured microphone
\* stream is live and no AudioContext is running.
C2_StopReleasesEverything ==
    stopRan =>
        /\ scheduledFrames = {}
        /\ openStreams = 0
        /\ RunningContexts = {}

\* C3: when the microphone request fails, the catch block sets the one error
\* message, leaves isVisualizing as it was (false when no start succeeded),
\* schedules no frame callback, acquires no stream or context and issues no
\* new request.
C3_MicFailureStaysIdle ==
    [][lastOp' = "getUserMediaRejected"
         => /\ mounted => micError' = MicDeniedMessage
            /\ isVisualizing' = isVisualizing
            /\ openStreams = 0 => isVisualizing' = FALSE
            /\ scheduledFrames' = scheduledFrames
            /\ nextHandle' = nextHandle
            /\ openStreams' = openStreams
            /\ contextState' = contextState
            /\ pendingGetUserMedia' = pendingGetUserMedia - 1]_vars

C3_Witness ==
    /\ lastOp = "getUserMediaRejected"
    /\ micError = MicDeniedMessage
    /\ isVisualizing = FALSE
    /\ scheduledFrames = {}
    /\ pendingGetUserMedia = 0
    /\ mounted

\* C4: when play() rejects for a togglePlayback made while isPlaying was
\* false, the call sets the error message, isPlaying is false before and
\* after, and play() is not called again (the element is left as it is and
\* one call fewer is waiting), also with several calls waiting on play().
C4_PlaybackFailureStaysIdle ==
    [][lastOp' = "togglePlaybackRejected"
         => /\ error' = PlaybackMessage
            /\ isPlaying = FALSE
            /\ isPlaying' = FALSE
            /\ element' = element
            /\ element' # "starting"
            /\ Len(pendingPlays') = Len(pendingPlays) - 1]_vars

\* Two overlapping calls were rejected; the first has run its catch block.
C4_Witness ==
    /\ lastOp = "togglePlaybackRejected"
    /\ error = PlaybackMessage
    /\ isPlaying = FALSE
    /\ Len(pendingPlays) = 1
    /\ playSettled = "rejected"

\* No file, or a file whose type does not start with "audio/".
InvalidSelection(file) ==
    \/ ~file.present
    \/ Len(file.type) < 6
    \/ \E k \in 1..6 : k <= Len(file.type) /\ file.type[k] # AudioPrefix[k]

\* C5: handleFileUpload with no file or with a file whose type does not
\* start with "audio/" sets the upload error message and changes nothing
\* else: audioFile, isPlaying, zFormula, the refs, the element and the
\* pending calls stay as they were.
C5_InvalidUploadOnlySetsError ==
    [][(lastOp' = "handleFileUpload" /\ InvalidSelection(lastFile'))
         => /\ error' = UploadMessage
            /\ UNCHANGED <<variant, audioFile, isPlaying, zFormula,
                           audioContextRef, analyserRef, sourceRef,
                           contextsCreated, sourcesCreated, connectCalls,
                           element, pendingPlays, playSettled>>]_vars

\* A file that is no audio file was rejected while another one was playing.
C5_Witness ==
    /\ lastOp = "handleFileUpload"
    /\ lastFile.present
    /\ InvalidSelection(lastFile)
    /\ error = UploadMessage
    /\ audioFile # 0
    /\ isPlaying
    /\ element = "playing"

\* C6: for every bar and every byte read, the index read lies inside the
\* snapshot and the height is at least 0.3.
C6_BarInsideSnapshotAndFloored ==
    lastOp = "computeBar" =>
        /\ barFreqIndex \in 0..(FrequencyBinCount - 1)
        /\ barHeight * 10 >= 3 * HeightScale

\* The last bar read a zero and got the floor.
C6_Witness ==
    /\ lastOp = "computeBar"
    /\ barI = barCount
    /\ barSample = 0
    /\ barFreqIndex = FrequencyBinCount - 2
    /\ barHeight * 10 = 3 * HeightScale

\* C7: the hue of every bar drawn lies in [180, 240), and within one pass of
\* the loop each bar's hue is greater than the hue of the bar before it.
C7_HueIncreasesWithinSweep ==
    /\ lastOp = "drawBar" =>
           /\ drawHue >= 180 * bufferLength
           /\ drawHue < 240 * bufferLength
    /\ drawI >= 2 => drawHue > drawPrevHue

\* The last bar of a pass was drawn.
C7_Witness ==
    /\ lastOp = "drawBar"
    /\ drawI = bufferLength
    /\ drawHue > drawPrevHue
    /\ drawHue > 239 * bufferLength

ToggleClicks == {"togglePlaybackPause", "togglePlaybackPlay"}

\* C8: at most one AudioContext and one media-element source are ever
\* created and they are wired with the two connections; every togglePlayback
\* leaves the pipeline in place, and nothing but a togglePlayback creates
\* one: the pipeline is built once, by the first toggle.
C8_PipelineBuiltOnceByFirstToggle ==
    /\ [](/\ contextsCreated <= 1
          /\ sourcesCreated <= 1
          /\ connectCalls = 2 * contextsCreated
          /\ audioContextRef = contextsCreated
          /\ analyserRef = contextsCreated
          /\ sourceRef = sourcesCreated)
    /\ [][/\ lastOp' \in ToggleClicks => contextsCreated' = 1 /\ sourcesCreated' = 1
          /\ contextsCreated' # contextsCreated => lastOp' \in ToggleClicks]_vars

\* Two toggles overlap on a pending play() of the second file uploaded.
C8_Witness ==
    /\ contextsCreated = 1
    /\ sourcesCreated = 1
    /\ connectCalls = 2
    /\ Len(pendingPlays) = 2
    /\ audioFile = 2

\* C9: at most one frame callback is scheduled and at most one AudioContext
\* is running, and they are the ones animationFrameRef and audioContextRef
\* hold.
C9_OneLoopOneContext ==
    /\ Cardinality(scheduledFrames) <= 1
    /\ Cardinality(RunningContexts) <= 1
    /\ scheduledFrames \subseteq {animationFrameRef}
    /\ RunningContexts \subseteq {micAudioContextRef}

\* C10: with no togglePlayback waiting on play(), isPlaying is true exactly
\* when the audio element is playing.
C10_IsPlayingMatchesElement ==
    pendingPlays = <<>> => (isPlaying <=> element = "playing")
====
